---- MODULE Spec2Model ----
(***************************************************************************)
(* Model of src/dependencies.go (Conservify/simple-deps): the manifest     *)
(* codec (Read / Write), the version-conflict check inside Read, the       *)
(* selective writeback (SaveModified), the local-override lookup           *)
(* (checkForLocalOverride) and the resolution loop (Refresh).              *)
(*                                                                         *)
(* Go strings are modelled as sequences of one-character strings so that   *)
(* strings.Split, path.Base, path.Ext, strings.TrimSuffix,                 *)
(* strings.Replace, path.Join, filepath.Abs, filepath.Dir and              *)
(* url.ParseRequestURI are computed the way the library computes them.     *)
(***************************************************************************)
EXTENDS Integers, Sequences, FiniteSets, TLC

VARIABLES
    files,        \* manifest files on disk: path -> [exists, lines, gen]
    nodes,        \* directory tree seen by os.Stat: path -> "none"|"dir"|"file"
    deps,         \* the Dependencies objects: object -> Libraries
    status,       \* "running", or "fatal" once log.Fatalf ended the process
    ret,          \* the last call and the error it returned
    pc,           \* position of the calling program
    rf,           \* locals of the Refresh call in progress
    effects       \* calls received by the collaborators and the filesystem

vars == <<files, nodes, deps, status, ret, pc, rf, effects>>

(***************************************************************************)
(* Bounds of the model.                                                    *)
(***************************************************************************)
MaxLines == 3        \* lines of the manifest in the parse specification
MaxLinesEach == 2    \* lines per manifest in the two-file specification
MaxLibs == 2         \* lines of the manifest in the resolution specification
MaxEdits == 1        \* edits by external mutators before a writeback

(***************************************************************************)
(* String literals.                                                        *)
(***************************************************************************)
Empty == <<>>
Space == " "
Slash == "/"
Star == <<"*">>
Root == <<"/">>
Dot == <<".">>
DotDot == <<".", ".">>
DotDotSlash == <<".", ".", "/">>
Sub == <<"/", "s", "u", "b">>
V1 == <<"1", ".", "0">>
V2 == <<"2", ".", "0">>
RefFoo == <<"h", "t", "t", "p", "s", ":", "/", "/", "e", "x", "a", "m", "p", "l", "e", ".", "c", "o", "m", "/", "l", "i", "b", "s", "/", "f", "o", "o", ".", "g", "i", "t">>
RefA == <<"h", "t", "t", "p", "s", ":", "/", "/", "x", "/", "a", ".", "g", "i", "t">>
RefAbsB == <<"/", "l", "o", "c", "a", "l", "/", "b">>
RefRelB == <<"l", "o", "c", "a", "l", "/", "b">>
NameFoo == <<"f", "o", "o">>
NameFooSub == <<"f", "o", "o", "_", "s", "u", "b">>
NameFoosub == <<"f", "o", "o", "s", "u", "b">>
FileA == <<"p", "/", "a">>
FileB == <<"q", "/", "b">>
FileOut == <<"o", "u", "t">>
Cwd == <<"/", "w", "/", "p">>
DirAbs == <<"/", "c">>
DirRel == <<"c">>

Letters == {"a", "b", "c", "d", "e", "f", "g", "h", "i", "j", "k", "l", "m",
            "n", "o", "p", "q", "r", "s", "t", "u", "v", "w", "x", "y", "z"}
Digits == {"0", "1", "2", "3", "4", "5", "6", "7", "8", "9"}

(***************************************************************************)
(* strings and path helpers of the Go standard library.                    *)
(***************************************************************************)
Drop(s, n) == SubSeq(s, n + 1, Len(s))
Take(s, n) == SubSeq(s, 1, n)

HasPrefix(s, p) == Len(s) >= Len(p) /\ Take(s, Len(p)) = p
HasSuffix(s, p) == Len(s) >= Len(p) /\ Drop(s, Len(s) - Len(p)) = p

\* strings.IndexByte, 1-based; 0 when absent
IndexOf(s, c) ==
    IF \E i \in 1..Len(s) : s[i] = c
    THEN CHOOSE i \in 1..Len(s) : s[i] = c /\ \A j \in 1..(i - 1) : s[j] # c
    ELSE 0

\* strings.LastIndex, 1-based; 0 when absent
LastIndexOf(s, c) ==
    IF \E i \in 1..Len(s) : s[i] = c
    THEN CHOOSE i \in 1..Len(s) : s[i] = c /\ \A j \in (i + 1)..Len(s) : s[j] # c
    ELSE 0

\* strings.Split(s, sep) for a one-character separator
RECURSIVE Split(_, _)
Split(s, sep) ==
    LET i == IndexOf(s, sep)
    IN  IF i = 0 THEN <<s>>
        ELSE <<Take(s, i - 1)>> \o Split(Drop(s, i), sep)

\* strings.Replace(s, old, new, -1) for one-character old and new
Replace(s, old, new) == [i \in 1..Len(s) |-> IF s[i] = old THEN new ELSE s[i]]

\* strings.TrimSuffix
TrimSuffix(s, suffix) ==
    IF HasSuffix(s, suffix) THEN Take(s, Len(s) - Len(suffix)) ELSE s

RECURSIVE StripTrailingSlashes(_)
StripTrailingSlashes(s) ==
    IF Len(s) > 0 /\ s[Len(s)] = Slash
    THEN StripTrailingSlashes(Take(s, Len(s) - 1))
    ELSE s

\* path.Base
Base(p) ==
    IF p = Empty THEN Dot
    ELSE LET q == StripTrailingSlashes(p)
             r == Drop(q, LastIndexOf(q, Slash))
         IN  IF r = Empty THEN Root ELSE r

\* path.Ext
Ext(p) ==
    LET stop == LastIndexOf(p, Slash)
        dot  == LastIndexOf(p, ".")
    IN  IF dot > stop THEN Drop(p, dot - 1) ELSE Empty

RECURSIVE JoinWith(_, _)
JoinWith(parts, sep) ==
    IF Len(parts) = 0 THEN Empty
    ELSE IF Len(parts) = 1 THEN parts[1]
    ELSE parts[1] \o <<sep>> \o JoinWith(Tail(parts), sep)

\* the element stack of path.Clean
RECURSIVE CleanElems(_, _, _)
CleanElems(elems, out, rooted) ==
    IF Len(elems) = 0 THEN out
    ELSE LET e == Head(elems)
             rest == Tail(elems)
         IN  IF e = Empty \/ e = Dot THEN CleanElems(rest, out, rooted)
             ELSE IF e = DotDot
             THEN IF Len(out) > 0 /\ out[Len(out)] # DotDot
                  THEN CleanElems(rest, Take(out, Len(out) - 1), rooted)
                  ELSE IF rooted THEN CleanElems(rest, out, rooted)
                  ELSE CleanElems(rest, Append(out, e), rooted)
             ELSE CleanElems(rest, Append(out, e), rooted)

\* path.Clean / filepath.Clean
Clean(p) ==
    IF p = Empty THEN Dot
    ELSE LET rooted == p[1] = Slash
             body == JoinWith(CleanElems(Split(p, Slash), <<>>, rooted), Slash)
         IN  IF rooted THEN Root \o body
             ELSE IF body = Empty THEN Dot ELSE body

\* path.Join(a, b) / filepath.Join(a, b)
Join(a, b) ==
    IF a = Empty /\ b = Empty THEN Empty
    ELSE IF a = Empty THEN Clean(b)
    ELSE IF b = Empty THEN Clean(a)
    ELSE Clean(a \o Root \o b)

\* filepath.IsAbs
IsAbs(p) == Len(p) > 0 /\ p[1] = Slash

\* filepath.Abs when os.Getwd succeeds
Abs(p) == IF IsAbs(p) THEN Clean(p) ELSE Join(Cwd, p)

\* filepath.Dir
Dir(p) == Clean(Take(p, LastIndexOf(p, Slash)))

(***************************************************************************)
(* net/url: getScheme and ParseRequestURI.                                 *)
(***************************************************************************)
NilURL == [IsNil |-> TRUE, Scheme |-> Empty, Host |-> Empty, Path |-> Empty]

RECURSIVE SchemeEnd(_, _)
\* position of the ':' ending the scheme; 0: no scheme; -1: missing scheme
SchemeEnd(raw, i) ==
    IF i > Len(raw) THEN 0
    ELSE IF raw[i] \in Letters THEN SchemeEnd(raw, i + 1)
    ELSE IF raw[i] \in Digits \cup {"+", "-", "."}
         THEN IF i = 1 THEN 0 ELSE SchemeEnd(raw, i + 1)
    ELSE IF raw[i] = ":" THEN IF i = 1 THEN -1 ELSE i
    ELSE 0

HostChars == Letters \cup Digits \cup {".", "-"}

ParseRequestURI(raw) ==
    IF raw = Empty THEN NilURL
    ELSE IF raw = Star THEN [IsNil |-> FALSE, Scheme |-> Empty, Host |-> Empty, Path |-> Star]
    ELSE LET e == SchemeEnd(raw, 1)
         IN  IF e = -1 THEN NilURL
             ELSE LET scheme == IF e = 0 THEN Empty ELSE Take(raw, e - 1)
                      rest == IF e = 0 THEN raw ELSE Drop(raw, e)
                  IN  IF ~HasPrefix(rest, Root)
                      THEN IF scheme # Empty
                           THEN [IsNil |-> FALSE, Scheme |-> scheme, Host |-> Empty, Path |-> Empty]
                           ELSE NilURL
                      ELSE IF scheme # Empty /\ HasPrefix(rest, <<Slash, Slash>>)
                      THEN LET after == Drop(rest, 2)
                               s == IndexOf(after, Slash)
                               host == IF s = 0 THEN after ELSE Take(after, s - 1)
                               path == IF s = 0 THEN Empty ELSE Drop(after, s - 1)
                           IN  IF \A i \in 1..Len(host) : host[i] \in HostChars
                               THEN [IsNil |-> FALSE, Scheme |-> scheme, Host |-> host, Path |-> path]
                               ELSE NilURL
                      ELSE [IsNil |-> FALSE, Scheme |-> scheme, Host |-> Empty, Path |-> rest]

(***************************************************************************)
(* Library and the line parser of Read.                                    *)
(***************************************************************************)
\* the Name with the mount path appended as it stands
LibraryName_NoReplace(urlOrPath, relativePath, url) ==
    LET name == IF ~url.IsNil
                THEN TrimSuffix(Base(url.Path), Ext(Base(url.Path)))
                ELSE Base(urlOrPath)
    IN  IF relativePath # Root THEN name \o relativePath ELSE name

\* lines 90-99: the Name of a library
LibraryName(urlOrPath, relativePath, url) ==
    LET name == IF ~url.IsNil
                THEN TrimSuffix(Base(url.Path), Ext(Base(url.Path)))
                ELSE Base(urlOrPath)
    IN  IF relativePath # Root
        THEN name \o Replace(relativePath, Slash, "_")
        ELSE name

\* lines 77-108: one manifest line to one Library
ParseLine(fn, line) ==
    LET fields == Split(line, Space)
        urlOrPath == fields[1]
        version == IF Len(fields) > 1 THEN fields[2] ELSE Empty
        relativePath == IF Len(fields) > 2 THEN fields[3] ELSE Root
        url == ParseRequestURI(urlOrPath)
    IN  [Configuration |-> fn,
         UrlOrPath |-> urlOrPath,
         Version |-> version,
         RelativePath |-> relativePath,
         Name |-> LibraryName(urlOrPath, relativePath, url),
         Modified |-> FALSE,
         URL |-> url]

\* the test with an unpinned entry never counted as a mismatch
VersionMismatch_UnpinnedPasses(seen, version) ==
    seen # Empty /\ version # Empty /\ seen # version

\* line 110: the version-mismatch test
VersionMismatch(seen, version) == seen # Empty /\ seen # version

\* lookup in a Go map[string]string: a missing key reads as ""
MapGet(m, k) == IF k \in DOMAIN m THEN m[k] ELSE Empty
MapPut(m, k, v) == [x \in DOMAIN m \cup {k} |-> IF x = k THEN v ELSE m[x]]

\* line 73: the map a Read call starts from
NewVersionsByPath == <<>>

\* lines 76-114: the scanner loop of Read
RECURSIVE ReadLoop(_, _, _, _)
ReadLoop(fn, lines, libraries, versionsByPath) ==
    IF Len(lines) = 0 THEN [Libraries |-> libraries, fatal |-> FALSE]
    ELSE LET lib == ParseLine(fn, Head(lines))
             appended == Append(libraries, lib)
         IN  IF VersionMismatch(MapGet(versionsByPath, lib.UrlOrPath), lib.Version)
             THEN [Libraries |-> appended, fatal |-> TRUE]
             ELSE ReadLoop(fn, Tail(lines), appended,
                           MapPut(versionsByPath, lib.UrlOrPath, lib.Version))

\* lines 50-59: the line Write emits for a library
SerializeLine(lib) ==
    LET version == IF lib.Version = Empty THEN Star ELSE lib.Version
    IN  IF lib.RelativePath # Root
        THEN lib.UrlOrPath \o <<Space>> \o version \o <<Space>> \o lib.RelativePath
        ELSE lib.UrlOrPath \o <<Space>> \o version

Serialize(libraries) == [i \in 1..Len(libraries) |-> SerializeLine(libraries[i])]

(***************************************************************************)
(* State shared by the operations.                                         *)
(***************************************************************************)
NoFile == [exists |-> FALSE, lines |-> <<>>, gen |-> 0]
FileWith(lines) == [exists |-> TRUE, lines |-> lines, gen |-> 0]

\* line 30-34: NewEmptyDependencies
NewEmptyDependencies == <<>>

\* line 169: the project directory Refresh starts from
DefaultProject == <<".", "/">>

IdleRefresh ==
    [active |-> FALSE, obj |-> 0, idx |-> 0, templateDatas |-> <<>>,
     project |-> DefaultProject,
     directory |-> Empty, useHead |-> FALSE, allowLocal |-> FALSE]

NoEffects ==
    [stats |-> <<>>, mkdirs |-> <<>>, clones |-> <<>>, hashes |-> <<>>, renders |-> <<>>]

Returned(op, obj, arg, err) == [op |-> op, obj |-> obj, arg |-> arg, err |-> err]

Manifests(lines, n) == UNION {[1..k -> lines] : k \in 0..n}

(***************************************************************************)
(* Dependencies.Read (lines 65-117).                                       *)
(***************************************************************************)
Read(o, fn) ==
    /\ status = "running"
    /\ IF ~files[fn].exists
       THEN /\ ret' = Returned("Read", o, fn, "open")
            /\ UNCHANGED <<deps, status>>
       ELSE LET r == ReadLoop(fn, files[fn].lines, deps[o], NewVersionsByPath)
            IN  /\ deps' = [deps EXCEPT ![o] = r.Libraries]
                /\ status' = IF r.fatal THEN "fatal" ELSE "running"
                /\ ret' = Returned("Read", o, fn, IF r.fatal THEN "fatal" ELSE "nil")
    /\ UNCHANGED <<files, nodes, rf, effects>>

(***************************************************************************)
(* Dependencies.Write (lines 42-63).                                       *)
(***************************************************************************)
WriteFile(fs, path, libraries) ==
    [fs EXCEPT ![path] = [exists |-> TRUE, lines |-> Serialize(libraries), gen |-> @.gen + 1]]

Write(o, path) ==
    /\ status = "running"
    /\ \E opened \in BOOLEAN :
          IF opened
          THEN /\ files' = WriteFile(files, path, deps[o])
               /\ ret' = Returned("Write", o, path, "nil")
          ELSE /\ ret' = Returned("Write", o, path, "open")
               /\ UNCHANGED files
    /\ UNCHANGED <<nodes, deps, status, rf, effects>>

(***************************************************************************)
(* The parse specification: one manifest is read, written back to a        *)
(* second path and read again into a fresh Dependencies.                   *)
(***************************************************************************)
ParseRefs == {RefFoo, RefRelB}
PinFields == {V1, V2, Star}

ParseLines ==
    ParseRefs
    \cup {r \o <<Space>> \o v : r \in ParseRefs, v \in PinFields}
    \cup {r \o <<Space>> \o v \o <<Space>> \o Sub : r \in ParseRefs, v \in PinFields}
    \cup {r \o <<Space>> \o V1 \o <<Space>> \o Root : r \in ParseRefs}

ParseInit ==
    /\ \E m \in Manifests(ParseLines, MaxLines) :
          files = [f \in {FileA, FileOut} |-> IF f = FileA THEN FileWith(m) ELSE NoFile]
    /\ nodes = <<>>
    /\ deps = [o \in {1, 2} |-> NewEmptyDependencies]
    /\ status = "running"
    /\ ret = Returned("none", 0, Empty, "nil")
    /\ pc = "start"
    /\ rf = IdleRefresh
    /\ effects = NoEffects

MainRead ==
    /\ pc = "start"
    /\ Read(1, FileA)
    /\ pc' = IF status' = "fatal" THEN pc ELSE "parsed"

MainWrite ==
    /\ pc = "parsed"
    /\ Write(1, FileOut)
    /\ pc' = IF ret'.err = "nil" THEN "written" ELSE "failed"

MainReRead ==
    /\ pc = "written"
    /\ Read(2, FileOut)
    /\ pc' = IF status' = "fatal" THEN pc ELSE "reparsed"

ParseNext == MainRead \/ MainWrite \/ MainReRead

SpecParse == ParseInit /\ [][ParseNext]_vars

(***************************************************************************)
(* Properties of the parse specification.                                  *)
(***************************************************************************)
\* the entries a manifest file declares, line by line
Entries(fn) == [i \in 1..Len(files[fn].lines) |-> ParseLine(fn, files[fn].lines[i])]

SameSource(a, b) == a.UrlOrPath = b.UrlOrPath
PinsDiffer(a, b) == a.Version # Empty /\ b.Version # Empty /\ a.Version # b.Version

\* two entries of one source pinned to different versions
PinnedConflict(libs) ==
    \E i, j \in 1..Len(libs) :
        i < j /\ SameSource(libs[i], libs[j]) /\ PinsDiffer(libs[i], libs[j])

\* C2: a manifest in which every two entries of one source declare equal
\* versions, or at least one of the two is unpinned, is read without the
\* fatal version mismatch, whatever the order of the entries.
C2_CompatibleEntriesNeverFatal ==
    (pc = "start" /\ status = "fatal") => PinnedConflict(Entries(FileA))

\* C3: a manifest holding two entries of one source with differing
\* non-empty versions never gets past Read: the process ends in the fatal
\* error, and no Read that returned left such a pair in the parsed set.
C3_PinnedConflictIsFatal ==
    /\ PinnedConflict(Entries(FileA)) => pc = "start"
    /\ (files[FileOut].exists /\ PinnedConflict(Entries(FileOut))) => pc # "reparsed"
    /\ status = "running" => \A o \in DOMAIN deps : ~PinnedConflict(deps[o])

\* a conflicting pair at the two ends of the manifest, with an entry of the
\* same source in between, made Read end the process
C3_Witness ==
    /\ status = "fatal" /\ pc = "start"
    /\ Len(files[FileA].lines) = 3
    /\ LET e == Entries(FileA)
       IN  /\ SameSource(e[1], e[2]) /\ SameSource(e[2], e[3])
           /\ PinsDiffer(e[1], e[3])
           /\ e[2].Version = e[1].Version

\* C10 as stated: foo.git mounted at / is named foo, mounted at /sub it is
\* named foosub.
C10_NameOfFooAsStated ==
    \A i \in 1..Len(deps[1]) :
        deps[1][i].UrlOrPath = RefFoo =>
            /\ deps[1][i].RelativePath = Root => deps[1][i].Name = NameFoo
            /\ deps[1][i].RelativePath = Sub => deps[1][i].Name = NameFoosub

\* C10 amended: foo.git mounted at / is named foo; mounted at /sub the mount
\* path is appended with every slash replaced by an underscore: foo_sub.
C10_NameOfFoo ==
    \A o \in DOMAIN deps : \A i \in 1..Len(deps[o]) :
        deps[o][i].UrlOrPath = RefFoo =>
            /\ deps[o][i].RelativePath = Root => deps[o][i].Name = NameFoo
            /\ deps[o][i].RelativePath = Sub => deps[o][i].Name = NameFooSub

C10_Witness ==
    /\ pc = "parsed"
    /\ \E i, j \in 1..Len(deps[1]) :
          /\ deps[1][i].UrlOrPath = RefFoo /\ deps[1][i].RelativePath = Root
          /\ deps[1][j].UrlOrPath = RefFoo /\ deps[1][j].RelativePath = Sub

\* the unpinned value: an omitted version and * are the same
Unpinned(v) == IF v = Star THEN Empty ELSE v

FieldEqual(a, b) ==
    /\ Len(a) = Len(b)
    /\ \A i \in 1..Len(a) :
          /\ a[i].UrlOrPath = b[i].UrlOrPath
          /\ Unpinned(a[i].Version) = Unpinned(b[i].Version)
          /\ a[i].RelativePath = b[i].RelativePath
          /\ a[i].Name = b[i].Name

\* C6: once a manifest was read and written back, reading the written text
\* succeeds and yields entries field-equal to those of the first read.
C6_RoundTrip ==
    /\ pc = "written" => status = "running"
    /\ pc = "reparsed" => FieldEqual(deps[1], deps[2])

(***************************************************************************)
(* Dependencies.SaveModified (lines 119-148).                              *)
(***************************************************************************)
\* lines 122-127: byConfiguration
Configurations(libraries) == {libraries[i].Configuration : i \in 1..Len(libraries)}
ByConfiguration(libraries, c) == SelectSeq(libraries, LAMBDA lib : lib.Configuration = c)

\* the writeback decision taken from the force flag alone
NeedsWrite_ForceOnly(libs, force) == force

\* lines 130-136: modified
NeedsWrite(libs, force) == force \/ \E i \in 1..Len(libs) : libs[i].Modified

\* the orders in which range may walk the keys of a map
Orders(S) == {s \in [1..Cardinality(S) -> S] : \A x \in S : \E i \in DOMAIN s : s[i] = x}

\* lines 129-147: the loop over the groups; failing holds the paths whose
\* OpenFile fails
RECURSIVE SaveLoop(_, _, _, _, _)
SaveLoop(order, fs, libraries, force, failing) ==
    IF Len(order) = 0 THEN [files |-> fs, err |-> "nil"]
    ELSE LET configuration == Head(order)
             libs == ByConfiguration(libraries, configuration)
         IN  IF NeedsWrite(libs, force)
             THEN IF configuration \in failing
                  THEN [files |-> fs, err |-> "open"]
                  ELSE SaveLoop(Tail(order), WriteFile(fs, configuration, libs),
                                libraries, force, failing)
             ELSE SaveLoop(Tail(order), fs, libraries, force, failing)

SaveModified(o, force) ==
    /\ status = "running"
    /\ \E order \in Orders(Configurations(deps[o])) :
       \E failing \in SUBSET Configurations(deps[o]) :
          LET r == SaveLoop(order, files, deps[o], force, failing)
          IN  /\ files' = r.files
              /\ ret' = Returned("SaveModified", o, force, r.err)
    /\ UNCHANGED <<nodes, deps, status, rf, effects>>

\* a mutator outside this file changes the pin of an entry and marks it
Edit(o, i, version) ==
    /\ status = "running"
    /\ deps' = [deps EXCEPT ![o][i].Version = version, ![o][i].Modified = TRUE]
    /\ ret' = Returned("Edit", o, Empty, "nil")
    /\ UNCHANGED <<files, nodes, status, rf, effects>>

(***************************************************************************)
(* The two-file specification: two manifests are read into one             *)
(* Dependencies, entries are edited, and the set is written back.          *)
(***************************************************************************)
FileLines ==
    {RefA, RefA \o <<Space>> \o V1, RefA \o <<Space>> \o V2, RefRelB \o <<Space>> \o V1}

FilesInit ==
    /\ \E a, b \in Manifests(FileLines, MaxLinesEach) :
          files = [f \in {FileA, FileB} |-> IF f = FileA THEN FileWith(a) ELSE FileWith(b)]
    /\ nodes = <<>>
    /\ deps = [o \in {1} |-> NewEmptyDependencies]
    /\ status = "running"
    /\ ret = Returned("none", 0, Empty, "nil")
    /\ pc = "start"
    /\ rf = IdleRefresh
    /\ effects = NoEffects

ModifiedCount(libraries) == Cardinality({i \in 1..Len(libraries) : libraries[i].Modified})

LoadFirst ==
    /\ pc = "start"
    /\ Read(1, FileA)
    /\ pc' = IF status' = "fatal" THEN pc ELSE "first"

LoadSecond ==
    /\ pc = "first"
    /\ Read(1, FileB)
    /\ pc' = IF status' = "fatal" THEN pc ELSE "loaded"

EditEntry ==
    /\ pc \in {"first", "loaded"}
    /\ ModifiedCount(deps[1]) < MaxEdits
    /\ \E i \in 1..Len(deps[1]) : \E v \in {V1, V2} :
          /\ ~deps[1][i].Modified
          /\ Edit(1, i, v)
    /\ pc' = pc

Save ==
    /\ pc \in {"first", "loaded"}
    /\ \E force \in BOOLEAN : SaveModified(1, force)
    /\ pc' = "saved"

FilesNext == LoadFirst \/ LoadSecond \/ EditEntry \/ Save

SpecFiles == FilesInit /\ [][FilesNext]_vars

(***************************************************************************)
(* Properties of the two-file specification.                               *)
(***************************************************************************)
\* C4: entries of one source read from two manifest files into one set
\* never declare differing non-empty versions: the second Read ends the
\* process instead of returning.
C4_CrossFileConflictCaught ==
    status = "running" =>
        \A i, j \in 1..Len(deps[1]) :
            (deps[1][i].Configuration # deps[1][j].Configuration
                /\ SameSource(deps[1][i], deps[1][j]))
            => ~PinsDiffer(deps[1][i], deps[1][j])

\* the files SaveModified has to rewrite
ToRewrite(libraries, force) ==
    {c \in Configurations(libraries) :
        force \/ \E i \in 1..Len(libraries) :
                    libraries[i].Configuration = c /\ libraries[i].Modified}

GroupText(libraries, c) ==
    Serialize(SelectSeq(libraries, LAMBDA lib : lib.Configuration = c))

\* a step of SaveModified changes only files it has to rewrite, and a
\* rewritten file holds the lines of its own group, in the order of the set
SaveFrame ==
    \A f \in DOMAIN files :
        files'[f] # files[f] =>
            /\ ret'.op = "SaveModified"
            /\ f \in ToRewrite(deps[1], ret'.arg)
            /\ files'[f].gen = files[f].gen + 1
            /\ files'[f].lines = GroupText(deps[1], f)

\* a SaveModified that returned nil rewrote every file it had to rewrite
SaveComplete ==
    (pc = "saved" /\ ret.err = "nil") =>
        \A f \in DOMAIN files : files[f].gen = 1 <=> f \in ToRewrite(deps[1], ret.arg)

\* C8: SaveModified(false) rewrites exactly the manifest files holding a
\* modified entry, SaveModified(true) every manifest file holding an entry;
\* every other file is left as it was, and a rewritten file holds all the
\* entries of its group, in order, and none of another group.
C8_SaveModifiedFrame == []SaveComplete /\ [][SaveFrame]_vars

\* an unforced writeback rewrote one manifest and left the other, which
\* has entries too, untouched
C8_Witness ==
    /\ pc = "saved" /\ ret.err = "nil" /\ ret.arg = FALSE
    /\ files[FileA].gen = 1 /\ files[FileB].gen = 0
    /\ Configurations(deps[1]) = {FileA, FileB}

(***************************************************************************)
(* checkForLocalOverride (lines 150-160) and Refresh (lines 167-235).      *)
(***************************************************************************)
NotFound == "Unable to find dependency"

\* os.Stat: the kind of the node a path names, "none" when Stat fails
StatKind(fs, p) == IF Abs(p) \in DOMAIN fs THEN fs[Abs(p)] ELSE "none"

\* the lookup accepting regular files only
CheckForLocalOverride_RegularOnly(lib, fs, getwd) ==
    LET expected == Join(DotDotSlash, lib.Name)
    IN  IF StatKind(fs, expected) = "file"
        THEN IF getwd THEN [path |-> Abs(expected), err |-> "nil"]
                      ELSE [path |-> Empty, err |-> "getwd"]
        ELSE [path |-> Empty, err |-> "nil"]

\* lines 150-160; getwd tells whether filepath.Abs can find the working
\* directory
CheckForLocalOverride(lib, fs, getwd) ==
    LET expected == Join(DotDotSlash, lib.Name)
    IN  IF StatKind(fs, expected) \notin {"none", "file"}
        THEN IF getwd THEN [path |-> Abs(expected), err |-> "nil"]
                      ELSE [path |-> Empty, err |-> "getwd"]
        ELSE [path |-> Empty, err |-> "nil"]

\* Repositories.GetWorkingCopyPathAndName: where the fetch layer keeps the
\* working copy of a library
WorkingCopyPath(lib, directory) == Join(directory, lib.Name)

\* Repositories.CloneDependency: the working copy path, or an error
CloneDependency(lib, directory, useHead, cloned) ==
    IF cloned THEN [path |-> WorkingCopyPath(lib, directory), err |-> "nil"]
    ELSE [path |-> Empty, err |-> "clone"]

\* lines 174-225: one iteration of the loop of Refresh on the library at
\* position i; env holds the outcomes of the calls the iteration may make
ResolveLibrary(lib, i, a, fs, env) ==
    LET none == <<>>
        checked == IF a.allowLocal
                   THEN CheckForLocalOverride(lib, fs, env.getwd1)
                   ELSE [path |-> Empty, err |-> "nil"]
        stats == IF a.allowLocal THEN <<[lib |-> i, path |-> Join(DotDotSlash, lib.Name)]>>
                 ELSE none
        dummy == checked.err = "nil" /\ checked.path # Empty /\ ~lib.URL.IsNil
        mkdirs == IF dummy THEN <<[lib |-> i, path |-> WorkingCopyPath(lib, a.directory)]>>
                  ELSE none
        overridden == checked.err = "nil" /\ (dummy => env.mkdir)
        fetch == overridden /\ checked.path = Empty /\ ~lib.URL.IsNil
        cloneResult == CloneDependency(lib, a.directory, a.useHead, env.clone)
        clones == IF fetch
                  THEN <<[lib |-> i, directory |-> a.directory, useHead |-> a.useHead,
                          err |-> cloneResult.err]>>
                  ELSE none
        local == overridden /\ checked.path = Empty /\ lib.URL.IsNil
        hashes == IF local /\ StatKind(fs, lib.UrlOrPath) = "dir"
                  THEN <<[lib |-> i, path |-> lib.UrlOrPath]>>
                  ELSE none
        dependencyPath == IF checked.path # Empty THEN checked.path
                          ELSE IF fetch /\ cloneResult.err = "nil" THEN cloneResult.path
                          ELSE Empty
        err == IF checked.err # "nil" THEN checked.err
               ELSE IF dummy /\ ~env.mkdir THEN "mkdir"
               ELSE IF fetch /\ cloneResult.err # "nil" THEN cloneResult.err
               ELSE IF dependencyPath = Empty THEN NotFound
               ELSE IF ~IsAbs(dependencyPath) /\ ~env.getwd2 THEN "getwd"
               ELSE "nil"
    IN  [err |-> err,
         info |-> [Name |-> lib.Name, Path |-> Abs(dependencyPath),
                   RelativePath |-> lib.RelativePath],
         stats |-> stats, mkdirs |-> mkdirs, clones |-> clones, hashes |-> hashes]

\* the loop going on to the next library after an error
NextLocals_Continue(locals, lib, r) ==
    IF r.err # "nil"
    THEN [locals EXCEPT !.idx = @ + 1]
    ELSE [locals EXCEPT !.idx = @ + 1,
                        !.templateDatas = Append(@, r.info),
                        !.project = Dir(lib.Configuration)]

\* lines 176, 185, 196, 212, 217 (return err) and 221-227: the locals of
\* Refresh after the iteration
NextLocals(locals, lib, r) ==
    IF r.err # "nil"
    THEN [locals EXCEPT !.active = FALSE]
    ELSE [locals EXCEPT !.idx = @ + 1,
                        !.templateDatas = Append(@, r.info),
                        !.project = Dir(lib.Configuration)]

\* lines 168-169: Refresh is entered
RefreshBegin(o, directory, useHead, allowLocal) ==
    /\ status = "running"
    /\ ~rf.active
    /\ rf' = [active |-> TRUE, obj |-> o, idx |-> 1, templateDatas |-> <<>>,
              project |-> DefaultProject,
              directory |-> directory, useHead |-> useHead, allowLocal |-> allowLocal]
    /\ UNCHANGED <<files, nodes, deps, status, ret, effects>>

\* lines 171-228: one iteration of the loop
RefreshLib ==
    /\ status = "running"
    /\ rf.active
    /\ rf.idx <= Len(deps[rf.obj])
    /\ \E getwd1, mkdir, clone, getwd2 \in BOOLEAN :
          LET lib == deps[rf.obj][rf.idx]
              env == [getwd1 |-> getwd1, mkdir |-> mkdir, clone |-> clone, getwd2 |-> getwd2]
          IN  \E r \in {ResolveLibrary(lib, rf.idx, rf, nodes, env)} :
              /\ rf' = NextLocals(rf, lib, r)
              /\ effects' = [effects EXCEPT !.stats = @ \o r.stats,
                                            !.mkdirs = @ \o r.mkdirs,
                                            !.clones = @ \o r.clones,
                                            !.hashes = @ \o r.hashes]
              /\ ret' = IF rf'.active THEN ret
                        ELSE Returned("Refresh", rf.obj, rf.directory, r.err)
    /\ UNCHANGED <<files, nodes, deps, status>>

\* lines 230-234 and TemplateData.Write (lines 247-280): the list is
\* rendered; os.Executable failing panics
RefreshRender ==
    /\ status = "running"
    /\ rf.active
    /\ rf.idx > Len(deps[rf.obj])
    /\ \E outcome \in {"nil", "template", "panic"} :
          /\ status' = IF outcome = "panic" THEN "fatal" ELSE status
          /\ ret' = Returned("Refresh", rf.obj, rf.directory, outcome)
    /\ effects' = [effects EXCEPT !.renders =
                      Append(@, [project |-> rf.project, Dependencies |-> rf.templateDatas])]
    /\ rf' = [rf EXCEPT !.active = FALSE]
    /\ UNCHANGED <<files, nodes, deps>>

(***************************************************************************)
(* The resolution specification: a manifest is read and resolved.          *)
(***************************************************************************)
RefreshLines == {RefA \o <<Space>> \o V1, RefAbsB, RefRelB}

OverrideA == <<"/", "w", "/", "a">>
OverrideB == <<"/", "w", "/", "b">>
LocalB == <<"/", "w", "/", "p", "/", "l", "o", "c", "a", "l", "/", "b">>

RefreshInit ==
    /\ \E m \in Manifests(RefreshLines, MaxLibs) :
          files = [f \in {FileA} |-> FileWith(m)]
    /\ \E ka, kb, kl \in {"none", "dir", "file"} : \E kr \in {"none", "dir"} :
          nodes = [p \in {OverrideA, OverrideB, LocalB, RefAbsB} |->
                      IF p = OverrideA THEN ka
                      ELSE IF p = OverrideB THEN kb
                      ELSE IF p = LocalB THEN kl ELSE kr]
    /\ deps = [o \in {1} |-> NewEmptyDependencies]
    /\ status = "running"
    /\ ret = Returned("none", 0, Empty, "nil")
    /\ pc = "start"
    /\ rf = IdleRefresh
    /\ effects = NoEffects

Load ==
    /\ pc = "start"
    /\ Read(1, FileA)
    /\ pc' = IF status' = "fatal" THEN pc ELSE "loaded"

Begin ==
    /\ pc = "loaded"
    /\ \E directory \in {DirAbs, DirRel} : \E useHead, allowLocal \in BOOLEAN :
          RefreshBegin(1, directory, useHead, allowLocal)
    /\ pc' = "refresh"

Resolve ==
    /\ pc = "refresh"
    /\ RefreshLib
    /\ pc' = IF rf'.active THEN pc ELSE "done"

Render ==
    /\ pc = "refresh"
    /\ RefreshRender
    /\ pc' = "done"

RefreshNext == Load \/ Begin \/ Resolve \/ Render

SpecRefresh == RefreshInit /\ [][RefreshNext]_vars

(***************************************************************************)
(* Properties of the resolution specification.                             *)
(***************************************************************************)
\* the absolute path of ../<Name>: the working directory is /w/p
OverridePathOf(lib) == <<"/", "w", "/">> \o lib.Name

\* a node other than a regular file sits at ../<Name>
OverrideExists(lib) == nodes[OverridePathOf(lib)] = "dir"

Started == rf.obj = 1
Libs == deps[1]
Returns == pc = "done" /\ ret.op = "Refresh"

ClonedFor(i) == \E k \in 1..Len(effects.clones) : effects.clones[k].lib = i
CloneFailedFor(i) ==
    \E k \in 1..Len(effects.clones) :
        effects.clones[k].lib = i /\ effects.clones[k].err # "nil"

\* C1: a URL-sourced library followed by a local-path library whose path is
\* an existing directory, no override in play, resolves: Refresh does not
\* fail with 'Unable to find dependency', and when it returns nil there are
\* two resolved dependencies, the second one the local library at the
\* absolute path of its source.
C1_UrlThenLocalDirectoryResolves ==
    (/\ Returns
     /\ Len(Libs) = 2
     /\ ~Libs[1].URL.IsNil
     /\ Libs[2].URL.IsNil
     /\ StatKind(nodes, Libs[2].UrlOrPath) = "dir"
     /\ (rf.allowLocal => \A i \in 1..2 : ~OverrideExists(Libs[i])))
    => /\ ret.err # NotFound
       /\ ret.err = "nil" =>
             /\ Len(rf.templateDatas) = 2
             /\ rf.templateDatas[2] = [Name |-> Libs[2].Name,
                                       Path |-> Cwd \o Root \o Libs[2].UrlOrPath,
                                       RelativePath |-> Libs[2].RelativePath]

\* the library at position i went through the loop of Refresh
Processed(i) == Started /\ (i < rf.idx \/ (i = rf.idx /\ Returns))
NotFoundAt(i) == Returns /\ ret.err = NotFound /\ rf.idx = i
OverrideInPlay(i) == rf.allowLocal /\ OverrideExists(Libs[i])

\* C5: a library makes Refresh fail with 'Unable to find dependency'
\* exactly when no override is used for it and either it is URL-sourced and
\* Clone fails, or it is local-path-sourced and its path is not an existing
\* directory.
C5_NotFoundExactlyWhen ==
    \A i \in 1..Len(Libs) :
        Processed(i) =>
            (NotFoundAt(i) <=>
                /\ ~OverrideInPlay(i)
                /\ \/ ~Libs[i].URL.IsNil /\ CloneFailedFor(i)
                   \/ Libs[i].URL.IsNil /\ StatKind(nodes, Libs[i].UrlOrPath) # "dir")

\* C7: with allowLocal set and a node other than a regular file at
\* ../<Name>, Clone is never invoked for the library and the path recorded
\* for it is the absolute path of that node, for URL-sourced and
\* local-path-sourced libraries alike.
C7_OverridePrecedence ==
    \A i \in 1..Len(Libs) :
        (Started /\ rf.allowLocal /\ OverrideExists(Libs[i])) =>
            /\ ~ClonedFor(i)
            /\ i <= Len(rf.templateDatas) =>
                  rf.templateDatas[i].Path = OverridePathOf(Libs[i])

\* a URL-sourced and a local-path-sourced library were both resolved to
\* their overrides
C7_Witness ==
    /\ Returns /\ ret.err = "nil" /\ rf.allowLocal
    /\ Len(Libs) = 2 /\ Len(rf.templateDatas) = 2
    /\ ~Libs[1].URL.IsNil /\ Libs[2].URL.IsNil
    /\ OverrideExists(Libs[1]) /\ OverrideExists(Libs[2])
    /\ OverridePathOf(Libs[1]) # OverridePathOf(Libs[2])

AllCalls == effects.stats \o effects.mkdirs \o effects.clones \o effects.hashes
IsPrefix(a, b) == Len(a) <= Len(b) /\ SubSeq(b, 1, Len(a)) = a

\* no library past the position of the loop was touched, every library
\* before it was resolved, an error return leaves the rest untouched and
\* the list unrendered, and the list is rendered once, complete
AbortInv ==
    /\ \A k \in 1..Len(AllCalls) : AllCalls[k].lib <= rf.idx
    /\ Started => Len(rf.templateDatas) = rf.idx - 1
    /\ (Returns /\ rf.idx <= Len(Libs)) =>
          /\ ret.err \notin {"nil", "template", "panic"}
          /\ effects.renders = <<>>
          /\ ~rf.active
    /\ \A i \in 1..Len(Libs) : CloneFailedFor(i) =>
          /\ effects.renders = <<>>
          /\ \A k \in 1..Len(AllCalls) : AllCalls[k].lib <= i
    /\ effects.renders # <<>> =>
          /\ Len(effects.renders) = 1
          /\ Len(effects.renders[1].Dependencies) = Len(Libs)
          /\ effects.renders[1].Dependencies = rf.templateDatas

\* the calls already made stay made
NoRollback ==
    /\ IsPrefix(effects.stats, effects'.stats)
    /\ IsPrefix(effects.mkdirs, effects'.mkdirs)
    /\ IsPrefix(effects.clones, effects'.clones)
    /\ IsPrefix(effects.hashes, effects'.hashes)
    /\ IsPrefix(effects.renders, effects'.renders)
    /\ (Started /\ rf.active) => IsPrefix(rf.templateDatas, rf'.templateDatas)

\* C9: a library that fails ends Refresh: no later library is processed
\* and the list is not rendered; what earlier libraries did is kept; the
\* list is rendered only when every library has been resolved.
C9_ErrorsAbortTheRun == []AbortInv /\ [][NoRollback]_vars

\* the second library failed after the first one was cloned
C9_Witness ==
    /\ Returns /\ Len(Libs) = 2 /\ rf.idx = 2
    /\ ret.err = NotFound
    /\ ClonedFor(1) /\ ~CloneFailedFor(1)
    /\ Len(rf.templateDatas) = 1
    /\ effects.renders = <<>>

====
